---- MODULE Spec2Model ----
(***************************************************************************)
(* A model of src/app.py: the Streamlit script with two screens, the       *)
(* "Valuation Dashboard" and the "Growth Stock Screener".  One run of the  *)
(* script is one pass from the sidebar (line 207) to the end of the file   *)
(* (line 458) or to the statement that raises.                             *)
(*                                                                         *)
(* Data representation.                                                    *)
(*   - A Python str is a sequence of one-character strings.                *)
(*   - A Python float is a record [k, n, d]: k = "num" is the rational     *)
(*     n/d in lowest terms with d > 0, k = "inf" is +inf (n = 1) or -inf   *)
(*     (n = -1), k = "nan" is NaN.  Floating-point rounding is idealised:  *)
(*     arithmetic is exact.                                                *)
(*   - A JSON value is a record [t, x, s]: t = "num" with the float x,     *)
(*     t = "str" with the string s, t = "null", and t = "missing" for a    *)
(*     key the dict does not hold.                                         *)
(*   - None is the empty sequence and any other optional value x is <<x>>. *)
(***************************************************************************)
EXTENDS Integers, Sequences, FiniteSets, TLC

\* ------------------------------------------------------------------ bounds
\* The longest list of annual reports a provider response carries.
MaxReports == 3
\* The most recent fiscal year of a response; reports cover the n years up to it.
LatestYear == 2023
\* The longest sector string of a company profile.
MaxSectorLen == 3
\* Growth values handed to color_coded_growth_text are n/d with |n| <= MaxGrowthNum.
MaxGrowthNum == 45

\* ------------------------------------------------------------------ floats
Abs(i) == IF i < 0 THEN -i ELSE i

RECURSIVE GCD(_, _)
GCD(a, b) == IF b = 0 THEN a ELSE GCD(b, a % b)

NaN == [k |-> "nan", n |-> 0, d |-> 1]
PosInf == [k |-> "inf", n |-> 1, d |-> 1]
NegInf == [k |-> "inf", n |-> -1, d |-> 1]

\* The float n/d, d # 0, in lowest terms.
Num(n, d) ==
    LET g == GCD(Abs(n), Abs(d))
        s == IF d < 0 THEN -1 ELSE 1
    IN  [k |-> "num", n |-> (s * n) \div g, d |-> (s * d) \div g]

\* IEEE division x / y of two finite floats: a zero divisor raises nothing,
\* it gives inf, -inf or (0 / 0) NaN.
FloatDiv(x, y) ==
    IF y.n = 0
    THEN IF x.n > 0 THEN PosInf ELSE IF x.n < 0 THEN NegInf ELSE NaN
    ELSE Num(x.n * y.d, x.d * y.n)

\* x - 1 and x * 100 on floats (inf and NaN propagate).
FloatMinusOne(x) == IF x.k = "num" THEN Num(x.n - x.d, x.d) ELSE x
FloatTimes100(x) == IF x.k = "num" THEN Num(100 * x.n, x.d) ELSE x

\* x < c and x >= c for a float x and an integer c; every comparison with NaN
\* is False.
FloatLt(x, c) ==
    CASE x.k = "nan" -> FALSE
      [] x.k = "inf" -> x.n < 0
      [] OTHER -> x.n < c * x.d
FloatGe(x, c) ==
    CASE x.k = "nan" -> FALSE
      [] x.k = "inf" -> x.n > 0
      [] OTHER -> x.n >= c * x.d

\* ----------------------------------------------------------------- strings
Digits == <<"0", "1", "2", "3", "4", "5", "6", "7", "8", "9">>
DigitChars == {Digits[i] : i \in 1..10}
DigitVal(c) == (CHOOSE i \in 1..10 : Digits[i] = c) - 1

\* str(n) for a natural number n.
RECURSIVE DigitsOf(_)
DigitsOf(n) ==
    IF n < 10 THEN <<Digits[n + 1]>>
    ELSE Append(DigitsOf(n \div 10), Digits[(n % 10) + 1])

RECURSIVE DigitsValue(_)
DigitsValue(s) ==
    IF s = <<>> THEN 0
    ELSE 10 * DigitsValue(SubSeq(s, 1, Len(s) - 1)) + DigitVal(s[Len(s)])

\* Code points of the characters the model uses, for str comparison.
Ord(c) ==
    CASE c = " " -> 32
      [] c = "-" -> 45
      [] c \in DigitChars -> 48 + DigitVal(c)
      [] c = "A" -> 65
      [] c = "F" -> 70
      [] c = "N" -> 78
      [] c = "a" -> 97
      [] c = "b" -> 98
      [] c = "c" -> 99
      [] c = "e" -> 101
      [] c = "f" -> 102
      [] c = "n" -> 110
      [] c = "o" -> 111
      [] OTHER -> 127

\* a < b for two str (lexicographic by code point).
RECURSIVE StrLt(_, _)
StrLt(a, b) ==
    IF b = <<>> THEN FALSE
    ELSE IF a = <<>> THEN TRUE
    ELSE IF Ord(Head(a)) # Ord(Head(b)) THEN Ord(Head(a)) < Ord(Head(b))
    ELSE StrLt(Tail(a), Tail(b))

\* s[:4]
Slice4(s) == SubSeq(s, 1, IF Len(s) < 4 THEN Len(s) ELSE 4)

\* The text of a number: digits with an optional leading minus sign.
IsNumeral(s) ==
    LET body == IF s # <<>> /\ Head(s) = "-" THEN Tail(s) ELSE s
    IN  body # <<>> /\ \A i \in 1..Len(body) : body[i] \in DigitChars

NumeralValue(s) ==
    IF Head(s) = "-" THEN Num(-DigitsValue(Tail(s)), 1)
    ELSE Num(DigitsValue(s), 1)

\* -------------------------------------------------------------- JSON values
JMissing == [t |-> "missing", x |-> NaN, s |-> <<>>]
JNull == [t |-> "null", x |-> NaN, s |-> <<>>]
JNum(n, d) == [t |-> "num", x |-> Num(n, d), s |-> <<>>]
JStr(s) == [t |-> "str", x |-> NaN, s |-> s]

None == <<>>
Some(x) == <<x>>

StrNone == <<"N", "o", "n", "e">>
StrNA == <<"N", "/", "A">>
StrAbc == <<"a", "b", "c">>

\* --------------------------------------------------------------- FMP fetches
\* An FMP response is [status, body]; a body is [t, items]: a JSON list of
\* records (t = "list") or one JSON object (t = "dict", items = <<object>>).
\* A record maps each key of its endpoint to a JSON value (JMissing: no key).
DcfKeys == {"dcf", "Stock Price"}
RatioKeys == {"priceEarningsRatio", "currentRatio", "quickRatio", "debtEquityRatio",
              "returnOnEquity", "priceToSalesRatio", "evToSales", "freeCashFlowPerShare"}
ProfileKeys == {"symbol", "sector"}

\* bool(d) for a dict d: an empty dict is falsy.
DictTruthy(rec) == \E key \in DOMAIN rec : rec[key].t # "missing"

\* bool(x) for None-or-dict x.
Truthy(opt) == opt # None /\ DictTruthy(opt[1])

get_dcf(response) ==
    IF response.status = 200
    THEN LET data == response.body
         IN  IF data.t = "list" /\ Len(data.items) > 0 THEN Some(data.items[1])
             ELSE IF data.t = "dict" /\ DictTruthy(data.items[1]) THEN Some(data.items[1])
             ELSE None
    ELSE None

get_ratios(response) ==
    IF response.status = 200
    THEN LET data == response.body
         IN  IF data.t = "list" /\ Len(data.items) > 0 THEN Some(data.items[1])
             ELSE IF data.t = "dict" /\ DictTruthy(data.items[1]) THEN Some(data.items[1])
             ELSE None
    ELSE None

\* The screener's own ratios request: only a non-empty list yields a record.
growth_ratios(response) ==
    IF response.status = 200
    THEN LET data == response.body
         IN  IF data.t = "list" /\ Len(data.items) > 0 THEN Some(data.items[1])
             ELSE None
    ELSE None

\* str.strip(): drop leading and trailing whitespace.
RECURSIVE lstrip(_)
lstrip(s) == IF s # <<>> /\ Head(s) = " " THEN lstrip(Tail(s)) ELSE s
RECURSIVE rstrip(_)
rstrip(s) ==
    IF s # <<>> /\ s[Len(s)] = " " THEN rstrip(SubSeq(s, 1, Len(s) - 1)) ELSE s
strip(s) == rstrip(lstrip(s))

\* d.get("sector", ""): the profile's sector is a str when present.
SectorOf(rec) == IF rec["sector"].t = "missing" THEN <<>> ELSE rec["sector"].s

get_company_sector(response) ==
    IF response.status = 200
    THEN LET data == response.body
         IN  IF data.t = "list" /\ Len(data.items) > 0
             THEN Some(strip(SectorOf(data.items[1])))
             ELSE IF data.t = "dict" /\ DictTruthy(data.items[1])
             THEN Some(strip(SectorOf(data.items[1])))
             ELSE None
    ELSE None

\* ------------------------------------------------------ Alpha Vantage fetches
\* An Alpha Vantage response is [status, body]; a body is [t, hasReports,
\* annualReports]: a JSON object with or without the key "annualReports"
\* (t = "dict"), or a JSON list (t = "list").  The fetchers return the parsed
\* body as it is on status 200, and {} otherwise.
EmptyDict == [t |-> "dict", hasReports |-> FALSE, annualReports |-> <<>>]
EmptyList == [t |-> "list", hasReports |-> FALSE, annualReports |-> <<>>]

fetch_income_statement_av(response) ==
    IF response.status = 200 THEN response.body ELSE EmptyDict
fetch_balance_sheet_av(response) ==
    IF response.status = 200 THEN response.body ELSE EmptyDict
fetch_cash_flow_av(response) ==
    IF response.status = 200 THEN response.body ELSE EmptyDict

\* x.get("annualReports", []) is defined for a dict only.
HasGet(av) == av.t = "dict"
GetReports(av) == IF av.hasReports THEN av.annualReports ELSE <<>>

\* ------------------------------------------------------------ float(), :.2f
\* float(v) for a JSON value v that is present: [err, x].
PyFloat(v) ==
    CASE v.t = "num" -> [err |-> "none", x |-> v.x]
      [] v.t = "null" -> [err |-> "TypeError", x |-> NaN]
      [] v.t = "str" /\ IsNumeral(v.s) -> [err |-> "none", x |-> NumeralValue(v.s)]
      [] OTHER -> [err |-> "ValueError", x |-> NaN]

\* format(x, ".2f"): x rounded to hundredths (ties to even), as the float
\* h/100 the two printed decimals denote; inf and nan print as themselves.
Fmt2f(x) ==
    IF x.k # "num" THEN x
    ELSE LET h == 100 * x.n
             q == h \div x.d
             r == h % x.d
             up == (2 * r > x.d) \/ (2 * r = x.d /\ q % 2 = 1)
         IN  Num(IF up THEN q + 1 ELSE q, 100)

\* str(v) of a JSON value, as an f-string prints it.
PyStr(v) ==
    CASE v.t = "null" -> StrNone
      [] v.t = "str" -> v.s
      [] OTHER -> <<>>

\* ---------------------------------------------------------------- the screen
\* One rendered element: the widget w, its label, the number it shows (val),
\* the text it shows instead (raw) and, for a chart, its rows.
NoVal == [k |-> "none", n |-> 0, d |-> 1]
Element(w, label) ==
    [w |-> w, label |-> label, val |-> NoVal, raw |-> <<>>, color |-> "", rows |-> <<>>]
Shown(w, label, x) ==
    [w |-> w, label |-> label, val |-> x, raw |-> <<>>, color |-> "", rows |-> <<>>]
ShownRaw(w, label, s) ==
    [w |-> w, label |-> label, val |-> NoVal, raw |-> s, color |-> "", rows |-> <<>>]
Chart(title, rows) ==
    [w |-> "altair_chart", label |-> title, val |-> NoVal, raw |-> <<>>, color |-> "",
     rows |-> rows]
\* st.markdown of a label and the string color_coded_growth_text returned.
GrowthText(label, res) ==
    [w |-> "markdown", label |-> label, val |-> res.val,
     raw |-> IF res.text = "N/A" THEN StrNA ELSE <<>>, color |-> res.color, rows |-> <<>>]

\* -------------------------------------------------------------- data frames
\* A data frame is the sequence of its rows; a row holds the columns the
\* script uses: Year, the metric column, and the derived "value"
\* (growth in percent) and "growth_color".
StatementKeys ==
    {"fiscalDateEnding", "totalRevenue", "netIncome", "totalAssets",
     "totalLiabilities", "operatingCashflow", "capitalExpenditures"}

\* `col in df.columns`: pd.DataFrame(reports) has the union of the reports' keys.
HasColumn(reports, col) == \E i \in 1..Len(reports) : reports[i][col].t # "missing"

\* pd.to_numeric(cell, errors="coerce"): what is not a number becomes NaN.
to_numeric(v) ==
    CASE v.t = "num" -> v.x
      [] v.t = "str" /\ IsNumeral(v.s) -> NumeralValue(v.s)
      [] OTHER -> NaN

\* df["Year"] = df["fiscalDateEnding"].str[:4]; df[col] = pd.to_numeric(df[col])
Frame(reports, col) ==
    [i \in 1..Len(reports) |->
        [Year |-> Slice4(reports[i]["fiscalDateEnding"].s),
         metric |-> to_numeric(reports[i][col]),
         value |-> NaN,
         growth_color |-> ""]]

\* df.dropna(subset=[col])
dropna_metric(df) == SelectSeq(df, LAMBDA r : r.metric.k # "nan")
\* df.dropna(subset=["value"])
dropna_value(df) == SelectSeq(df, LAMBDA r : r.value.k # "nan")

\* df.sort_values("Year"): ascending by the Year string, by insertion.
RECURSIVE InsertByYear(_, _)
InsertByYear(sorted, r) ==
    IF sorted = <<>> THEN <<r>>
    ELSE IF StrLt(r.Year, Head(sorted).Year) THEN <<r>> \o sorted
    ELSE <<Head(sorted)>> \o InsertByYear(Tail(sorted), r)

RECURSIVE SortByYear(_)
SortByYear(df) ==
    IF df = <<>> THEN <<>>
    ELSE InsertByYear(SortByYear(SubSeq(df, 1, Len(df) - 1)), df[Len(df)])

\* The frame left in the order the provider sent it: the screener without its sort.
sort_values_unsorted(df) == df

sort_values(df) == SortByYear(df)

\* df[col].pct_change() * 100: row i gets (metric[i] / metric[i-1] - 1) * 100,
\* the first row NaN.
pct_change_x100(df) ==
    [i \in 1..Len(df) |->
        [df[i] EXCEPT !.value =
            IF i = 1 THEN NaN
            ELSE FloatTimes100(FloatMinusOne(FloatDiv(df[i].metric, df[i - 1].metric)))]]

\* The lambda with > in place of >=.
growth_color_gt(x) ==
    IF FloatGe(x, 20) /\ x # Num(20, 1) THEN "green"
    ELSE IF FloatGe(x, 10) /\ x # Num(10, 1) THEN "orange" ELSE "red"

\* lambda x: "green" if x >= 20 else "orange" if x >= 10 else "red"
growth_color(x) ==
    IF FloatGe(x, 20) THEN "green" ELSE IF FloatGe(x, 10) THEN "orange" ELSE "red"

with_growth_color(df) ==
    [i \in 1..Len(df) |-> [df[i] EXCEPT !.growth_color = growth_color(df[i].value)]]

\* plot_annual_bars: the rows of the chart.
Scale == 1000000000
ScaleDown(x) == IF x.k = "num" THEN Num(x.n, x.d * Scale) ELSE x

plot_annual_bars(reports, metric_col) ==
    LET df == [i \in 1..Len(reports) |->
                  [Year |-> Slice4(reports[i]["fiscalDateEnding"].s),
                   metric |-> ScaleDown(to_numeric(reports[i][metric_col])),
                   value |-> NaN,
                   growth_color |-> ""]]
    IN  sort_values(dropna_metric(df))

\* --------------------------------------------------- color_coded_growth_text
\* The variant whose first band takes exactly 10 too (<= in place of <).
color_coded_growth_text_le(growth_value) ==
    IF growth_value.k = "nan"
    THEN [text |-> "N/A", color |-> "", val |-> NoVal, label |-> ""]
    ELSE IF FloatLt(growth_value, 10) \/ growth_value = Num(10, 1)
    THEN [text |-> "span", color |-> "red", val |-> Fmt2f(growth_value), label |-> "Weak"]
    ELSE IF FloatLt(growth_value, 20)
    THEN [text |-> "span", color |-> "orange", val |-> Fmt2f(growth_value), label |-> "Moderate"]
    ELSE [text |-> "span", color |-> "green", val |-> Fmt2f(growth_value), label |-> "Strong"]

\* The returned string: "N/A", or a span of a colour around the value printed
\* to two decimals and the band's label.
color_coded_growth_text(growth_value) ==
    IF growth_value.k = "nan"
    THEN [text |-> "N/A", color |-> "", val |-> NoVal, label |-> ""]
    ELSE IF FloatLt(growth_value, 10)
    THEN [text |-> "span", color |-> "red", val |-> Fmt2f(growth_value), label |-> "Weak"]
    ELSE IF FloatLt(growth_value, 20)
    THEN [text |-> "span", color |-> "orange", val |-> Fmt2f(growth_value), label |-> "Moderate"]
    ELSE [text |-> "span", color |-> "green", val |-> Fmt2f(growth_value), label |-> "Strong"]

\* ------------------------------------------------------- provider responses
\* The responses the providers may give: the inputs of a run.
Str12 == <<"1", "2">>
DcfRecords ==
    {[key \in DcfKeys |-> IF key = "dcf" THEN a ELSE b] :
        a \in {JNum(15025, 100), JMissing, JNull, JStr(StrAbc), JStr(Str12)},
        b \in {JNum(140, 1), JMissing}}

RatioFull == [key \in RatioKeys |-> JNum(1255, 1000)]
RatioSparse ==
    [key \in RatioKeys |->
        CASE key \in {"priceEarningsRatio", "priceToSalesRatio"} -> JNull
          [] key \in {"currentRatio", "evToSales"} -> JStr(StrNA)
          [] key \in {"quickRatio"} -> JNum(5, 10)
          [] OTHER -> JMissing]
RatioText ==
    [key \in RatioKeys |->
        CASE key \in {"returnOnEquity", "evToSales"} -> JStr(StrAbc)
          [] key \in {"freeCashFlowPerShare"} -> JNull
          [] OTHER -> JStr(Str12)]
RatioRecords == {RatioFull, RatioSparse, RatioText}

\* A failed request (status 500), an empty list, an empty object, a list of one
\* record, or one record as an object.
FmpResponses(keys, records, objects) ==
    LET empty == [key \in keys |-> JMissing]
    IN  {[status |-> 500, body |-> [t |-> "dict", items |-> <<empty>>]],
         [status |-> 200, body |-> [t |-> "list", items |-> <<>>]],
         [status |-> 200, body |-> [t |-> "dict", items |-> <<empty>>]]}
        \cup {[status |-> 200, body |-> [t |-> "list", items |-> <<rec>>]] : rec \in records}
        \cup {[status |-> 200, body |-> [t |-> "dict", items |-> <<rec>>]] : rec \in objects}

DcfResponses ==
    FmpResponses(DcfKeys, DcfRecords,
                 {[key \in DcfKeys |-> IF key = "dcf" THEN JNum(15025, 100) ELSE JNum(140, 1)]})
RatioResponses == FmpResponses(RatioKeys, RatioRecords, {RatioFull})

\* Annual reports: a report maps each statement key to a JSON value.
FiscalDate(year) == DigitsOf(year) \o <<"-", "1", "2", "-", "3", "1">>
Report(date, col, v) ==
    [key \in StatementKeys |->
        IF key = "fiscalDateEnding" THEN date ELSE IF key = col THEN v ELSE JMissing]

\* The values a provider sends for a metric: "None", "0", "80", "100".
RawValues == {JStr(StrNone), JStr(<<"0">>), JStr(<<"8", "0">>), JStr(<<"1", "0", "0">>)}

\* The orders a provider may list the n fiscal years up to LatestYear in:
\* any order, or newest first and oldest first only.
YearsOf(n) == (LatestYear - n + 1)..LatestYear
AnyOrder(n) == {f \in [1..n -> YearsOf(n)] : \A i, j \in 1..n : i # j => f[i] # f[j]}
EndOrders(n) == {[i \in 1..n |-> LatestYear - i + 1], [i \in 1..n |-> LatestYear - n + i]}

\* The values of the metric in a list of n reports: one per report, or none
\* of the reports with the column.
ValueLists(n) == [1..n -> RawValues] \cup [1..n -> {JMissing}]

\* The reports of the fiscal years ys, in that order, with the values vs.
ReportList(col, ys, vs) ==
    [i \in 1..Len(ys) |-> Report(JStr(FiscalDate(ys[i])), col, vs[i])]

\* Lists of up to MaxReports reports of n consecutive fiscal years, newest
\* first or oldest first.
ReportLists(col) ==
    UNION {{ReportList(col, ys, vs) : ys \in EndOrders(n), vs \in ValueLists(n)} :
           n \in 0..MaxReports}

\* A response with status 200 that carries the annual reports l.
AvSuccess(l) ==
    [status |-> 200, body |-> [t |-> "dict", hasReports |-> TRUE, annualReports |-> l]]

AvResponses(lists) ==
    {[status |-> 500, body |-> EmptyDict],
     [status |-> 200, body |-> EmptyDict],
     [status |-> 200, body |-> EmptyList]}
    \cup {AvSuccess(l) : l \in lists}

\* Of the two statements of one screener run, at least one is plain: it has
\* fewer than two reports, or it is the statement of 80 then 100, newest first.
PlainList(col) ==
    <<Report(JStr(FiscalDate(LatestYear)), col, JStr(<<"1", "0", "0">>)),
      Report(JStr(FiscalDate(LatestYear - 1)), col, JStr(<<"8", "0">>))>>
Plain(response) ==
    \/ Len(response.body.annualReports) < 2
    \/ response.body.annualReports \in {PlainList("totalRevenue"),
                                         PlainList("operatingCashflow")}

IncomeResponses == AvResponses(ReportLists("totalRevenue"))
CashFlowResponses == AvResponses(ReportLists("operatingCashflow"))
PlainIncomeResponses == {r \in IncomeResponses : Plain(r)}
PlainCashFlowResponses == {r \in CashFlowResponses : Plain(r)}

\* The statements the Valuation Dashboard charts: two columns per statement.
Report2(date, colA, a, colB, b) ==
    [key \in StatementKeys |->
        CASE key = "fiscalDateEnding" -> date
          [] key = colA -> a
          [] key = colB -> b
          [] OTHER -> JMissing]
ChartLists(colA, colB) ==
    LET d1 == JStr(FiscalDate(LatestYear))
        d0 == JStr(FiscalDate(LatestYear - 1))
        v1 == JStr(<<"1", "0", "0">>)
        v0 == JStr(<<"8", "0">>)
    IN  {<<>>,
         <<Report2(d1, colA, v1, colB, v0), Report2(d0, colA, v0, colB, JStr(StrNone))>>,
         <<Report2(d0, colA, v0, colB, JMissing), Report2(d1, colA, v1, colB, JMissing)>>,
         <<Report2(JMissing, colA, JMissing, colB, v0)>>}

ChartIncomeResponses == AvResponses(ChartLists("totalRevenue", "netIncome"))
ChartBalanceResponses == AvResponses(ChartLists("totalAssets", "totalLiabilities"))
ChartCashFlowResponses == AvResponses(ChartLists("operatingCashflow", "capitalExpenditures"))

\* -------------------------------------------------------------------- state
VARIABLES
    pc,                 \* the line the run is at; "end" and "raised" end a run
    exc,                \* the exception that ended the run, or "none"
    defined,            \* the functions bound in the script's namespace
    page, ticker, button,
    requests,           \* the HTTP requests made, in order
    fmp_responses,      \* the responses get_dcf and get_ratios received, in order
    av_responses,       \* the responses the Alpha Vantage fetchers received, in order
    out,                \* the elements rendered, in order
    dcf_data, ratios_data,
    av_income, av_balance, av_cashfl,
    income_reports, balance_reports, cashflow_reports,
    inc_df, inc_df_renamed, latest_growth,
    cf_df, cf_df_renamed, latest_ocf_growth,
    \* direct calls of the module's functions (specification SpecLib)
    call,               \* the function called, "" before the call
    growth_value, growth_text,
    growth_rows,        \* a frame given its growth_color column
    profile_a, profile_b, sector_a, sector_b

scriptVars ==
    <<pc, exc, defined, page, ticker, button, requests, fmp_responses, av_responses,
      out, dcf_data, ratios_data,
      av_income, av_balance, av_cashfl, income_reports, balance_reports,
      cashflow_reports, inc_df, inc_df_renamed, latest_growth, cf_df, cf_df_renamed,
      latest_ocf_growth>>
libVars ==
    <<call, growth_value, growth_text, growth_rows, profile_a, profile_b, sector_a,
      sector_b>>
vars == <<scriptVars, libVars>>

Pages == {"Valuation Dashboard", "Growth Stock Screener"}

\* The functions defined above the sidebar (lines 18-177).
EarlyDefs ==
    {"get_dcf", "get_ratios", "get_company_sector", "fetch_income_statement_av",
     "fetch_balance_sheet_av", "fetch_cash_flow_av", "plot_annual_bars",
     "plot_assets_vs_liabilities"}

NoResponse == [status |-> 0, body |-> [t |-> "list", items |-> <<>>]]

ScriptInit ==
    /\ pc = "L207"
    /\ exc = "none"
    /\ defined = EarlyDefs
    /\ page = "Valuation Dashboard"
    /\ ticker = <<>>
    /\ button = FALSE
    /\ requests = <<>>
    /\ fmp_responses = <<>>
    /\ av_responses = <<>>
    /\ out = <<>>
    /\ dcf_data = None
    /\ ratios_data = None
    /\ av_income = EmptyDict
    /\ av_balance = EmptyDict
    /\ av_cashfl = EmptyDict
    /\ income_reports = <<>>
    /\ balance_reports = <<>>
    /\ cashflow_reports = <<>>
    /\ inc_df = <<>>
    /\ inc_df_renamed = <<>>
    /\ latest_growth = NaN
    /\ cf_df = <<>>
    /\ cf_df_renamed = <<>>
    /\ latest_ocf_growth = NaN

LibInit ==
    /\ call = ""
    /\ growth_value = NaN
    /\ growth_text = color_coded_growth_text(NaN)
    /\ growth_rows = <<>>
    /\ profile_a = NoResponse
    /\ profile_b = NoResponse
    /\ sector_a = None
    /\ sector_b = None

Init == ScriptInit /\ LibInit

\* str.upper() on the characters a ticker is typed with.
upper(s) == [i \in 1..Len(s) |-> IF s[i] = "a" THEN "A" ELSE s[i]]

Raise(e) == exc' = e /\ pc' = "raised"

\* ------------------------------------------------------------------ sidebar
\* Lines 207-217 and 316-320: the page, the ticker and the button.
Sidebar ==
    /\ pc = "L207"
    /\ \E p \in Pages, typed \in {<<>>, <<"a">>, <<"A">>}, clicked \in BOOLEAN :
        /\ page' = p
        /\ ticker' = upper(typed)
        /\ button' = clicked
        /\ out' = Append(out, Element("title", p))
        /\ pc' = IF clicked /\ upper(typed) # <<>>
                 THEN IF p = "Valuation Dashboard" THEN "L221" ELSE "L324"
                 ELSE "L444"
    /\ UNCHANGED <<exc, defined, requests, dcf_data, ratios_data, av_income, av_balance,
                   av_cashfl, income_reports, balance_reports, cashflow_reports, inc_df,
                   inc_df_renamed, latest_growth, cf_df, cf_df_renamed,
                   latest_ocf_growth, fmp_responses, av_responses,
                   libVars>>

\* ------------------------------------------------------ Valuation Dashboard
V_get_dcf ==
    /\ pc = "L221"
    /\ \E response \in DcfResponses :
        /\ dcf_data' = get_dcf(response)
        /\ fmp_responses' = Append(fmp_responses, response)
    /\ requests' = Append(requests, "fmp:discounted-cash-flow")
    /\ pc' = "L222"
    /\ UNCHANGED <<exc, defined, page, ticker, button, out, ratios_data, av_income,
                   av_balance, av_cashfl, income_reports, balance_reports,
                   cashflow_reports, inc_df, inc_df_renamed, latest_growth, cf_df,
                   cf_df_renamed, latest_ocf_growth, av_responses,
                   libVars>>

V_get_ratios ==
    /\ pc = "L222"
    /\ \E response \in RatioResponses :
        /\ ratios_data' = get_ratios(response)
        /\ fmp_responses' = Append(fmp_responses, response)
    /\ requests' = Append(requests, "fmp:ratios")
    /\ pc' = "L224"
    /\ UNCHANGED <<exc, defined, page, ticker, button, out, dcf_data, av_income,
                   av_balance, av_cashfl, income_reports, balance_reports,
                   cashflow_reports, inc_df, inc_df_renamed, latest_growth, cf_df,
                   cf_df_renamed, latest_ocf_growth, av_responses,
                   libVars>>

\* Lines 224-229: the error when both fetches gave nothing, else the subheader.
V_check ==
    /\ pc = "L224"
    /\ IF ~Truthy(dcf_data) /\ ~Truthy(ratios_data)
       THEN /\ out' = Append(out, Element("error", "Could not retrieve any required data"))
            /\ pc' = "L444"
       ELSE /\ out' = Append(out, Element("subheader", "Valuation Metrics"))
            /\ pc' = "L230"
    /\ UNCHANGED <<exc, defined, page, ticker, button, requests, dcf_data, ratios_data,
                   av_income, av_balance, av_cashfl, income_reports, balance_reports,
                   cashflow_reports, inc_df, inc_df_renamed, latest_growth, cf_df,
                   cf_df_renamed, latest_ocf_growth, fmp_responses, av_responses,
                   libVars>>

\* d.get(key, 0)
GetOrZero(rec, key) == IF rec[key].t = "missing" THEN JNum(0, 1) ELSE rec[key]

\* Lines 230-234: the two metrics of the DCF record, or the warning.
V_dcf_metrics ==
    /\ pc = "L230"
    /\ IF Truthy(dcf_data)
       THEN LET dcf == PyFloat(GetOrZero(dcf_data[1], "dcf"))
                price == PyFloat(GetOrZero(dcf_data[1], "Stock Price"))
                m1 == Shown("metric", "DCF Valuation", Fmt2f(dcf.x))
                m2 == Shown("metric", "Stock Price", Fmt2f(price.x))
            IN  IF dcf.err # "none"
                THEN Raise(dcf.err) /\ out' = out
                ELSE IF price.err # "none"
                THEN Raise(price.err) /\ out' = Append(out, m1)
                ELSE /\ out' = out \o <<m1, m2>>
                     /\ pc' = "L236"
                     /\ exc' = exc
       ELSE /\ out' = Append(out, Element("warning", "DCF data not available."))
            /\ pc' = "L236"
            /\ exc' = exc
    /\ UNCHANGED <<defined, page, ticker, button, requests, dcf_data, ratios_data,
                   av_income, av_balance, av_cashfl, income_reports, balance_reports,
                   cashflow_reports, inc_df, inc_df_renamed, latest_growth, cf_df,
                   cf_df_renamed, latest_ocf_growth, fmp_responses, av_responses,
                   libVars>>

\* RATIO_GUIDANCE, in the order of the dict: key and title.
RATIO_GUIDANCE ==
    <<[key |-> "priceEarningsRatio", title |-> "Price-to-Earnings (P/E) Ratio"],
      [key |-> "currentRatio", title |-> "Current Ratio"],
      [key |-> "quickRatio", title |-> "Quick Ratio"],
      [key |-> "debtEquityRatio", title |-> "Debt to Equity Ratio"],
      [key |-> "returnOnEquity", title |-> "Return on Equity (ROE)"]>>

\* Lines 238-244: one line per key the record holds; a value float() rejects
\* is printed as it is.
RatioLine(rec, g) ==
    LET f == PyFloat(rec[g.key])
    IN  IF f.err = "none" THEN Shown("markdown", g.title, Fmt2f(f.x))
        ELSE ShownRaw("markdown", g.title, PyStr(rec[g.key]))

RatioLines(rec) ==
    LET present == SelectSeq(RATIO_GUIDANCE, LAMBDA g : rec[g.key].t # "missing")
    IN  [i \in 1..Len(present) |-> RatioLine(rec, present[i])]

\* Lines 236-246.
V_ratios ==
    /\ pc = "L236"
    /\ IF Truthy(ratios_data)
       THEN out' = out \o <<Element("subheader", "Key Financial Ratios")>>
                       \o RatioLines(ratios_data[1])
       ELSE out' = Append(out, Element("warning", "Ratios data not available."))
    /\ pc' = "L251"
    /\ UNCHANGED <<exc, defined, page, ticker, button, requests, dcf_data, ratios_data,
                   av_income, av_balance, av_cashfl, income_reports, balance_reports,
                   cashflow_reports, inc_df, inc_df_renamed, latest_growth, cf_df,
                   cf_df_renamed, latest_ocf_growth, fmp_responses, av_responses,
                   libVars>>

\* Lines 251-254: the three Alpha Vantage fetches.
V_fetch_av ==
    /\ pc = "L251"
    /\ \E r1 \in ChartIncomeResponses, r2 \in ChartBalanceResponses,
          r3 \in ChartCashFlowResponses :
        /\ av_income' = fetch_income_statement_av(r1)
        /\ av_balance' = fetch_balance_sheet_av(r2)
        /\ av_cashfl' = fetch_cash_flow_av(r3)
        /\ av_responses' = av_responses \o <<r1, r2, r3>>
    /\ out' = Append(out, Element("subheader", "Annual Trends (via Alpha Vantage)"))
    /\ requests' = requests \o <<"av:INCOME_STATEMENT", "av:BALANCE_SHEET", "av:CASH_FLOW">>
    /\ pc' = "L257"
    /\ UNCHANGED <<exc, defined, page, ticker, button, dcf_data, ratios_data,
                   income_reports, balance_reports, cashflow_reports, inc_df,
                   inc_df_renamed, latest_growth, cf_df, cf_df_renamed,
                   latest_ocf_growth, fmp_responses, 
                   libVars>>

\* df[["fiscalDateEnding", col]] raises KeyError without the date column.
BarCharts(reports, colA, titleA, colB, titleB) ==
    (IF HasColumn(reports, colA) THEN <<Chart(titleA, plot_annual_bars(reports, colA))>>
     ELSE <<>>)
    \o (IF HasColumn(reports, colB) THEN <<Chart(titleB, plot_annual_bars(reports, colB))>>
        ELSE <<>>)

\* Lines 257-275 and 293-311: a statement's two bar charts, or the info.
TwoCharts(av, heading, colA, titleA, colB, titleB, info, next, reports) ==
    IF ~HasGet(av)
    THEN Raise("AttributeError") /\ out' = out /\ reports' = reports
    ELSE LET rs == GetReports(av)
         IN  /\ reports' = rs
             /\ IF rs = <<>>
                THEN out' = Append(out, Element("info", info)) /\ pc' = next /\ exc' = exc
                ELSE IF ~HasColumn(rs, "fiscalDateEnding")
                        /\ (HasColumn(rs, colA) \/ HasColumn(rs, colB))
                THEN Raise("KeyError: 'fiscalDateEnding'") /\ out' = Append(out, Element("markdown", heading))
                ELSE /\ out' = out \o <<Element("markdown", heading)>>
                                   \o BarCharts(rs, colA, titleA, colB, titleB)
                     /\ pc' = next
                     /\ exc' = exc

V_income ==
    /\ pc = "L257"
    /\ TwoCharts(av_income, "Income Statement", "totalRevenue", "Total Revenue",
                 "netIncome", "Net Income",
                 "No annual income statement data from Alpha Vantage.", "L278",
                 income_reports)
    /\ UNCHANGED <<defined, page, ticker, button, requests, dcf_data, ratios_data,
                   av_income, av_balance, av_cashfl, balance_reports,
                   cashflow_reports, inc_df, inc_df_renamed, latest_growth, cf_df,
                   cf_df_renamed, latest_ocf_growth, fmp_responses, av_responses,
                   libVars>>

\* plot_assets_vs_liabilities: the rows of the overlay chart, liabilities as
\* "metric" and assets as "value", both in billions.
plot_assets_vs_liabilities(reports) ==
    LET df == [i \in 1..Len(reports) |->
                  [Year |-> Slice4(reports[i]["fiscalDateEnding"].s),
                   metric |-> ScaleDown(to_numeric(reports[i]["totalLiabilities"])),
                   value |-> ScaleDown(to_numeric(reports[i]["totalAssets"])),
                   growth_color |-> ""]]
    IN  sort_values(dropna_value(dropna_metric(df)))

\* Lines 278-290.
V_balance ==
    /\ pc = "L278"
    /\ IF ~HasGet(av_balance)
       THEN Raise("AttributeError") /\ out' = out /\ balance_reports' = balance_reports
       ELSE LET rs == GetReports(av_balance)
            IN  /\ balance_reports' = rs
                /\ IF rs = <<>>
                   THEN /\ out' = Append(out, Element("info",
                                     "No annual balance sheet data from Alpha Vantage."))
                        /\ pc' = "L293"
                        /\ exc' = exc
                   ELSE IF ~(HasColumn(rs, "totalAssets") /\ HasColumn(rs, "totalLiabilities"))
                   THEN /\ out' = out \o <<Element("markdown", "Balance Sheet"),
                                           Element("info", "Missing 'totalAssets' or 'totalLiabilities' data for overlay chart.")>>
                        /\ pc' = "L293"
                        /\ exc' = exc
                   ELSE IF ~HasColumn(rs, "fiscalDateEnding")
                   THEN /\ Raise("KeyError: 'fiscalDateEnding'")
                        /\ out' = Append(out, Element("markdown", "Balance Sheet"))
                   ELSE /\ out' = out \o <<Element("markdown", "Balance Sheet"),
                                           Chart("Liabilities (Bars) vs. Assets (Line)",
                                                 plot_assets_vs_liabilities(rs))>>
                        /\ pc' = "L293"
                        /\ exc' = exc
    /\ UNCHANGED <<defined, page, ticker, button, requests, dcf_data, ratios_data,
                   av_income, av_balance, av_cashfl, income_reports,
                   cashflow_reports, inc_df, inc_df_renamed, latest_growth, cf_df,
                   cf_df_renamed, latest_ocf_growth, fmp_responses, av_responses,
                   libVars>>

V_cash_flow ==
    /\ pc = "L293"
    /\ TwoCharts(av_cashfl, "Cash Flow Statement", "operatingCashflow",
                 "Operating Cash Flow", "capitalExpenditures", "Capital Expenditures",
                 "No annual cash flow data from Alpha Vantage.", "L444",
                 cashflow_reports)
    /\ UNCHANGED <<defined, page, ticker, button, requests, dcf_data, ratios_data,
                   av_income, av_balance, av_cashfl, income_reports, balance_reports,
                   inc_df, inc_df_renamed, latest_growth, cf_df,
                   cf_df_renamed, latest_ocf_growth, fmp_responses, av_responses,
                   libVars>>

\* ---------------------------------------------------- Growth Stock Screener
\* Lines 334-343: a value that is neither None nor "N/A" goes through float().
GROWTH_RATIOS ==
    <<[key |-> "priceToSalesRatio", title |-> "Price-to-Sales (P/S)"],
      [key |-> "evToSales", title |-> "EV/Revenue"],
      [key |-> "freeCashFlowPerShare", title |-> "Free Cash Flow Per Share"]>>

\* d.get(key) is None for a missing key as for a null.
IsNoneOrNA(v) == v.t \in {"missing", "null"} \/ (v.t = "str" /\ v.s = StrNA)

\* The lines rendered for the keys from position i on, up to the first float()
\* that raises: [lines, err].
RECURSIVE GrowthRatioLines(_, _)
GrowthRatioLines(rec, i) ==
    IF i > Len(GROWTH_RATIOS) THEN [lines |-> <<>>, err |-> "none"]
    ELSE LET g == GROWTH_RATIOS[i]
             v == rec[g.key]
             rest == GrowthRatioLines(rec, i + 1)
         IN  IF IsNoneOrNA(v) THEN rest
             ELSE LET f == PyFloat(v)
                  IN  IF f.err # "none" THEN [lines |-> <<>>, err |-> f.err]
                      ELSE [lines |-> <<Shown("markdown", g.title, Fmt2f(f.x))>> \o rest.lines,
                            err |-> rest.err]

\* Lines 324-345: the screener's ratios request and the ratios it shows.
G_ratios ==
    /\ pc = "L324"
    /\ requests' = Append(requests, "fmp:ratios")
    /\ \E response \in RatioResponses :
        /\ ratios_data' = growth_ratios(response)
        /\ LET head == Element("subheader", "Key Growth Ratios (from FMP)")
           IN  IF Truthy(ratios_data')
               THEN LET r == GrowthRatioLines(ratios_data'[1], 1)
                    IN  /\ out' = out \o <<head>> \o r.lines
                        /\ IF r.err # "none" THEN Raise(r.err)
                           ELSE pc' = "L350" /\ exc' = exc
               ELSE /\ out' = out \o <<head, Element("info",
                                    "No ratio data found for this ticker from FMP.")>>
                    /\ pc' = "L350"
                    /\ exc' = exc
    /\ UNCHANGED <<defined, page, ticker, button, dcf_data, av_income, av_balance,
                   av_cashfl, income_reports, balance_reports, cashflow_reports, inc_df,
                   inc_df_renamed, latest_growth, cf_df, cf_df_renamed,
                   latest_ocf_growth, fmp_responses, av_responses,
                   libVars>>

\* Lines 350-351.
G_fetch_av ==
    /\ pc = "L350"
    /\ \E r1 \in IncomeResponses :
       \E r2 \in IF Plain(r1) THEN CashFlowResponses ELSE PlainCashFlowResponses :
        /\ av_income' = fetch_income_statement_av(r1)
        /\ av_cashfl' = fetch_cash_flow_av(r2)
        /\ av_responses' = av_responses \o <<r1, r2>>
    /\ requests' = requests \o <<"av:INCOME_STATEMENT", "av:CASH_FLOW">>
    /\ pc' = "L353"
    /\ UNCHANGED <<exc, defined, page, ticker, button, out, dcf_data, ratios_data,
                   av_balance, income_reports, balance_reports, cashflow_reports, inc_df,
                   inc_df_renamed, latest_growth, cf_df, cf_df_renamed,
                   latest_ocf_growth, fmp_responses, 
                   libVars>>

\* Lines 353-357: the two report lists, and the warning when both are short.
G_reports ==
    /\ pc = "L353"
    /\ IF ~HasGet(av_income)
       THEN /\ Raise("AttributeError")
            /\ UNCHANGED <<out, income_reports, cashflow_reports>>
       ELSE /\ income_reports' = GetReports(av_income)
            /\ IF ~HasGet(av_cashfl)
               THEN /\ Raise("AttributeError")
                    /\ UNCHANGED <<out, cashflow_reports>>
               ELSE /\ cashflow_reports' = GetReports(av_cashfl)
                    /\ exc' = exc
                    /\ IF Len(income_reports') < 2 /\ Len(cashflow_reports') < 2
                       THEN /\ out' = Append(out, Element("warning",
                                 "Not enough annual data from Alpha Vantage to compute multi-year growth."))
                            /\ pc' = "L444"
                       ELSE /\ out' = out
                            /\ pc' = "L362"
    /\ UNCHANGED <<defined, page, ticker, button, requests, dcf_data, ratios_data,
                   av_income, av_balance, av_cashfl, balance_reports, inc_df,
                   inc_df_renamed, latest_growth, cf_df, cf_df_renamed,
                   latest_ocf_growth, fmp_responses, av_responses,
                   libVars>>

\* Lines 364-371 and 406-413: the frame with its growth column.
GrowthFrame(reports, col) ==
    pct_change_x100(sort_values(dropna_metric(Frame(reports, col))))

\* Lines 362-375: revenue growth per year.
G_revenue_growth ==
    /\ pc = "L362"
    /\ IF Len(income_reports) >= 2
       THEN /\ out' = Append(out, Element("subheader", "Revenue Growth Analysis (YoY)"))
            /\ IF ~HasColumn(income_reports, "fiscalDateEnding")
                  \/ ~HasColumn(income_reports, "totalRevenue")
               THEN /\ Raise(IF ~HasColumn(income_reports, "fiscalDateEnding")
                          THEN "KeyError: 'fiscalDateEnding'"
                          ELSE "KeyError: 'totalRevenue'")
                    /\ UNCHANGED <<inc_df, inc_df_renamed>>
               ELSE /\ inc_df' = GrowthFrame(income_reports, "totalRevenue")
                    /\ inc_df_renamed' = dropna_value(inc_df')
                    /\ pc' = "L378"
                    /\ exc' = exc
       ELSE /\ pc' = "L404"
            /\ UNCHANGED <<exc, out, inc_df, inc_df_renamed>>
    /\ UNCHANGED <<defined, page, ticker, button, requests, dcf_data, ratios_data,
                   av_income, av_balance, av_cashfl, income_reports, balance_reports,
                   cashflow_reports, latest_growth, cf_df, cf_df_renamed,
                   latest_ocf_growth, fmp_responses, av_responses,
                   libVars>>

\* Lines 378-396: the colour of each bar and the chart.
G_revenue_chart ==
    /\ pc = "L378"
    /\ inc_df_renamed' = with_growth_color(inc_df_renamed)
    /\ out' = Append(out, Chart("YoY Revenue Growth", inc_df_renamed'))
    /\ pc' = "L398"
    /\ UNCHANGED <<exc, defined, page, ticker, button, requests, dcf_data, ratios_data,
                   av_income, av_balance, av_cashfl, income_reports, balance_reports,
                   cashflow_reports, inc_df, latest_growth, cf_df, cf_df_renamed,
                   latest_ocf_growth, fmp_responses, av_responses,
                   libVars>>

\* Line 398: .iloc[-1] of an empty column raises IndexError.
G_revenue_latest ==
    /\ pc = "L398"
    /\ IF inc_df_renamed = <<>>
       THEN Raise("IndexError") /\ latest_growth' = latest_growth
       ELSE /\ latest_growth' = inc_df_renamed[Len(inc_df_renamed)].value
            /\ pc' = "L399"
            /\ exc' = exc
    /\ UNCHANGED <<defined, page, ticker, button, requests, out, dcf_data, ratios_data,
                   av_income, av_balance, av_cashfl, income_reports, balance_reports,
                   cashflow_reports, inc_df, inc_df_renamed, cf_df, cf_df_renamed,
                   latest_ocf_growth, fmp_responses, av_responses,
                   libVars>>

\* Line 399: the call of color_coded_growth_text; a name not yet bound in the
\* namespace raises NameError.
G_revenue_text ==
    /\ pc = "L399"
    /\ IF "color_coded_growth_text" \in defined
       THEN /\ out' = Append(out, GrowthText("Latest Revenue Growth",
                                             color_coded_growth_text(latest_growth)))
            /\ pc' = "L404"
            /\ exc' = exc
       ELSE Raise("NameError") /\ out' = out
    /\ UNCHANGED <<defined, page, ticker, button, requests, dcf_data, ratios_data,
                   av_income, av_balance, av_cashfl, income_reports, balance_reports,
                   cashflow_reports, inc_df, inc_df_renamed, latest_growth, cf_df,
                   cf_df_renamed, latest_ocf_growth, fmp_responses, av_responses,
                   libVars>>

\* Lines 404-416: operating cash flow growth per year.
G_ocf_growth ==
    /\ pc = "L404"
    /\ IF Len(cashflow_reports) >= 2
       THEN /\ out' = Append(out, Element("subheader",
                                          "Operating Cash Flow Growth Analysis (YoY)"))
            /\ IF ~HasColumn(cashflow_reports, "fiscalDateEnding")
                  \/ ~HasColumn(cashflow_reports, "operatingCashflow")
               THEN /\ Raise(IF ~HasColumn(cashflow_reports, "fiscalDateEnding")
                          THEN "KeyError: 'fiscalDateEnding'"
                          ELSE "KeyError: 'operatingCashflow'")
                    /\ UNCHANGED <<cf_df, cf_df_renamed>>
               ELSE /\ cf_df' = GrowthFrame(cashflow_reports, "operatingCashflow")
                    /\ cf_df_renamed' = dropna_value(cf_df')
                    /\ pc' = "L418"
                    /\ exc' = exc
       ELSE /\ pc' = "L444"
            /\ UNCHANGED <<exc, out, cf_df, cf_df_renamed>>
    /\ UNCHANGED <<defined, page, ticker, button, requests, dcf_data, ratios_data,
                   av_income, av_balance, av_cashfl, income_reports, balance_reports,
                   cashflow_reports, inc_df, inc_df_renamed, latest_growth,
                   latest_ocf_growth, fmp_responses, av_responses,
                   libVars>>

\* Lines 418-436.
G_ocf_chart ==
    /\ pc = "L418"
    /\ cf_df_renamed' = with_growth_color(cf_df_renamed)
    /\ out' = Append(out, Chart("YoY Operating Cash Flow Growth", cf_df_renamed'))
    /\ pc' = "L438"
    /\ UNCHANGED <<exc, defined, page, ticker, button, requests, dcf_data, ratios_data,
                   av_income, av_balance, av_cashfl, income_reports, balance_reports,
                   cashflow_reports, inc_df, inc_df_renamed, latest_growth, cf_df,
                   latest_ocf_growth, fmp_responses, av_responses,
                   libVars>>

\* Line 438.
G_ocf_latest ==
    /\ pc = "L438"
    /\ IF cf_df_renamed = <<>>
       THEN Raise("IndexError") /\ latest_ocf_growth' = latest_ocf_growth
       ELSE /\ latest_ocf_growth' = cf_df_renamed[Len(cf_df_renamed)].value
            /\ pc' = "L439"
            /\ exc' = exc
    /\ UNCHANGED <<defined, page, ticker, button, requests, out, dcf_data, ratios_data,
                   av_income, av_balance, av_cashfl, income_reports, balance_reports,
                   cashflow_reports, inc_df, inc_df_renamed, latest_growth, cf_df,
                   cf_df_renamed, fmp_responses, av_responses,
                   libVars>>

\* Line 439.
G_ocf_text ==
    /\ pc = "L439"
    /\ IF "color_coded_growth_text" \in defined
       THEN /\ out' = Append(out, GrowthText("Latest Operating CF Growth",
                                             color_coded_growth_text(latest_ocf_growth)))
            /\ pc' = "L444"
            /\ exc' = exc
       ELSE Raise("NameError") /\ out' = out
    /\ UNCHANGED <<defined, page, ticker, button, requests, dcf_data, ratios_data,
                   av_income, av_balance, av_cashfl, income_reports, balance_reports,
                   cashflow_reports, inc_df, inc_df_renamed, latest_growth, cf_df,
                   cf_df_renamed, latest_ocf_growth, fmp_responses, av_responses,
                   libVars>>

\* ------------------------------------------------------------ end of the file
\* Line 444: the def statement binds color_coded_growth_text; the run ends.
DefineGrowthText ==
    /\ pc = "L444"
    /\ defined' = defined \cup {"color_coded_growth_text"}
    /\ pc' = "end"
    /\ UNCHANGED <<exc, page, ticker, button, requests, out, dcf_data, ratios_data,
                   av_income, av_balance, av_cashfl, income_reports, balance_reports,
                   cashflow_reports, inc_df, inc_df_renamed, latest_growth, cf_df,
                   cf_df_renamed, latest_ocf_growth, fmp_responses, av_responses,
                   libVars>>

\* The next interaction runs the script again from its first line, in a
\* namespace of its own.
Rerun ==
    /\ pc \in {"end", "raised"}
    /\ pc' = "L207"
    /\ exc' = "none"
    /\ defined' = EarlyDefs
    /\ page' = "Valuation Dashboard"
    /\ ticker' = <<>>
    /\ button' = FALSE
    /\ requests' = <<>>
    /\ fmp_responses' = <<>>
    /\ av_responses' = <<>>
    /\ out' = <<>>
    /\ dcf_data' = None
    /\ ratios_data' = None
    /\ av_income' = EmptyDict
    /\ av_balance' = EmptyDict
    /\ av_cashfl' = EmptyDict
    /\ income_reports' = <<>>
    /\ balance_reports' = <<>>
    /\ cashflow_reports' = <<>>
    /\ inc_df' = <<>>
    /\ inc_df_renamed' = <<>>
    /\ latest_growth' = NaN
    /\ cf_df' = <<>>
    /\ cf_df_renamed' = <<>>
    /\ latest_ocf_growth' = NaN
    /\ UNCHANGED libVars

Next ==
    \/ Sidebar
    \/ V_get_dcf
    \/ V_get_ratios
    \/ V_check
    \/ V_dcf_metrics
    \/ V_ratios
    \/ V_fetch_av
    \/ V_income
    \/ V_balance
    \/ V_cash_flow
    \/ G_ratios
    \/ G_fetch_av
    \/ G_reports
    \/ G_revenue_growth
    \/ G_revenue_chart
    \/ G_revenue_latest
    \/ G_revenue_text
    \/ G_ocf_growth
    \/ G_ocf_chart
    \/ G_ocf_latest
    \/ G_ocf_text
    \/ DefineGrowthText
    \/ Rerun

Spec == Init /\ [][Next]_vars

\* ------------------------------------------- the screener from its fetches on
\* The screener after line 351 of a run whose ratios request failed: one of
\* the two statements failed too, the other lists its fiscal years in any order.
AvFailure == [status |-> 500, body |-> EmptyDict]

ScreenerInit ==
    /\ pc = "L353"
    /\ exc = "none"
    /\ defined = EarlyDefs
    /\ page = "Growth Stock Screener"
    /\ ticker = <<"A">>
    /\ button = TRUE
    /\ requests = <<"fmp:ratios", "av:INCOME_STATEMENT", "av:CASH_FLOW">>
    /\ fmp_responses = <<>>
    /\ out = <<Element("title", "Growth Stock Screener"),
               Element("subheader", "Key Growth Ratios (from FMP)"),
               Element("info", "No ratio data found for this ticker from FMP.")>>
    /\ dcf_data = None
    /\ ratios_data = None
    /\ \E n \in 0..MaxReports : \E ys \in AnyOrder(n) : \E vs \in ValueLists(n) :
       \E income \in BOOLEAN :
        LET r1 == IF income THEN AvSuccess(ReportList("totalRevenue", ys, vs))
                  ELSE AvFailure
            r2 == IF income THEN AvFailure
                  ELSE AvSuccess(ReportList("operatingCashflow", ys, vs))
        IN  /\ av_responses = <<r1, r2>>
            /\ av_income = fetch_income_statement_av(r1)
            /\ av_cashfl = fetch_cash_flow_av(r2)
    /\ av_balance = EmptyDict
    /\ income_reports = <<>>
    /\ balance_reports = <<>>
    /\ cashflow_reports = <<>>
    /\ inc_df = <<>>
    /\ inc_df_renamed = <<>>
    /\ latest_growth = NaN
    /\ cf_df = <<>>
    /\ cf_df_renamed = <<>>
    /\ latest_ocf_growth = NaN
    /\ LibInit

ScreenerNext ==
    \/ G_reports
    \/ G_revenue_growth
    \/ G_revenue_chart
    \/ G_revenue_latest
    \/ G_revenue_text
    \/ G_ocf_growth
    \/ G_ocf_chart
    \/ G_ocf_latest
    \/ G_ocf_text
    \/ DefineGrowthText

SpecScreener == ScreenerInit /\ [][ScreenerNext]_vars

\* ------------------------------------------------ the functions, called alone
\* The growth values color_coded_growth_text is called with: NaN, the two
\* infinities, and the whole and half numbers up to MaxGrowthNum.
GrowthValues ==
    {NaN, PosInf, NegInf}
    \cup {Num(n, d) : n \in (-MaxGrowthNum)..MaxGrowthNum, d \in {1, 2}}

Call_color_coded_growth_text ==
    /\ call = ""
    /\ call' = "color_coded_growth_text"
    /\ \E x \in GrowthValues :
        /\ growth_value' = x
        /\ growth_text' = color_coded_growth_text(x)
    /\ UNCHANGED <<scriptVars, growth_rows, profile_a, profile_b, sector_a, sector_b>>

\* Company profiles: the sector is a string of spaces, "f" and "F".
SectorChars == {" ", "f", "F"}
SectorStrings == UNION {[1..n -> SectorChars] : n \in 0..MaxSectorLen}
Profile(sector) ==
    [key \in ProfileKeys |-> IF key = "sector" THEN sector ELSE JStr(<<"A">>)]
ProfileResponses ==
    FmpResponses(ProfileKeys,
                 {Profile(JStr(s)) : s \in SectorStrings} \cup {Profile(JMissing)},
                 {Profile(JStr(<<"F">>)), Profile(JStr(<<"f", " ">>))})

\* Two calls of get_company_sector, each with the response to its request.
Call_get_company_sector ==
    /\ call = ""
    /\ call' = "get_company_sector"
    /\ \E a \in ProfileResponses, b \in ProfileResponses :
        /\ profile_a' = a
        /\ profile_b' = b
        /\ sector_a' = get_company_sector(a)
        /\ sector_b' = get_company_sector(b)
    /\ UNCHANGED <<scriptVars, growth_value, growth_text, growth_rows>>

\* Lines 378-380 (418-420): the lambda applied to the value column of a frame,
\* here a frame of one row.
Apply_growth_color ==
    /\ call = ""
    /\ call' = "growth_color"
    /\ \E x \in GrowthValues :
        /\ growth_value' = x
        /\ growth_rows' =
              with_growth_color(<<[Year |-> DigitsOf(LatestYear), metric |-> NaN,
                                   value |-> x, growth_color |-> ""]>>)
    /\ UNCHANGED <<scriptVars, growth_text, profile_a, profile_b, sector_a, sector_b>>

LibNext ==
    \/ Call_color_coded_growth_text
    \/ Apply_growth_color
    \/ Call_get_company_sector

SpecLib == Init /\ [][LibNext]_vars

\* ================================================================== claims
GrowthPage == page = "Growth Stock Screener"
ValuationPage == page = "Valuation Dashboard"

\* A valid metric value: numeric and strictly greater than zero.
IsValidValue(v) ==
    \/ v.t = "num" /\ v.x.k = "num" /\ v.x.n > 0
    \/ v.t = "str" /\ IsNumeral(v.s) /\ NumeralValue(v.s).n > 0
ValidPeriods(reports, col) == {i \in 1..Len(reports) : IsValidValue(reports[i][col])}
ValidCount(reports, col) == Cardinality(ValidPeriods(reports, col))

\* The fiscal year of a report, and the value of its metric, as numbers.
YearOf(report) == DigitsValue(Slice4(report["fiscalDateEnding"].s))
ValueOf(report, col) ==
    IF report[col].t = "num" THEN report[col].x.n ELSE DigitsValue(report[col].s)

Entered(heading) ==
    \E i \in 1..Len(out) : out[i].w = "subheader" /\ out[i].label = heading
RenderedNA(label) ==
    \E i \in 1..Len(out) : out[i].label = label /\ out[i].raw = StrNA
RenderedNumber(label) ==
    \E i \in 1..Len(out) : out[i].label = label /\ out[i].val.k = "num"

RevenueHeading == "Revenue Growth Analysis (YoY)"
OcfHeading == "Operating Cash Flow Growth Analysis (YoY)"

\* C1: when fewer than two reports carry a valid (numeric, > 0) value of the
\* metric, the screener's growth for it is undefined and is rendered as "N/A":
\* the block raises nothing, the latest growth is no number, and the text shown
\* for it is "N/A".  (The claim as stated.)
C1_FewValidIsNA ==
    /\ (GrowthPage /\ Entered(RevenueHeading)
        /\ ValidCount(income_reports, "totalRevenue") < 2) =>
            /\ pc = "raised" => Entered(OcfHeading)
            /\ pc = "L399" => latest_growth.k = "nan"
            /\ pc \in {"L404", "L418", "L438", "L439", "L444", "end"} =>
                 RenderedNA("Latest Revenue Growth")
    /\ (GrowthPage /\ Entered(OcfHeading)
        /\ ValidCount(cashflow_reports, "operatingCashflow") < 2) =>
            /\ pc # "raised"
            /\ pc = "L439" => latest_ocf_growth.k = "nan"
            /\ pc \in {"L444", "end"} => RenderedNA("Latest Operating CF Growth")

\* C2: every divisor of a computed period-over-period growth, the metric of
\* the preceding row of the sorted frame, is strictly greater than zero.
\* (The claim as stated.)
PositiveDivisors(df) == \A i \in 2..Len(df) : df[i - 1].metric.n > 0
C2_DivisorPositive == PositiveDivisors(inc_df) /\ PositiveDivisors(cf_df)

\* C3: with at least two valid values, the latest growth is
\* ((latest - previous) / previous) * 100 of the most recent and the next most
\* recent valid periods.  (The claim as stated.)
LatestValid(reports, col) ==
    CHOOSE i \in ValidPeriods(reports, col) :
        \A j \in ValidPeriods(reports, col) : YearOf(reports[j]) <= YearOf(reports[i])
PreviousValid(reports, col) ==
    LET rest == ValidPeriods(reports, col) \ {LatestValid(reports, col)}
    IN  CHOOSE i \in rest : \A j \in rest : YearOf(reports[j]) <= YearOf(reports[i])
ExpectedGrowth(reports, col) ==
    LET latest == ValueOf(reports[LatestValid(reports, col)], col)
        previous == ValueOf(reports[PreviousValid(reports, col)], col)
    IN  Num(100 * (latest - previous), previous)
C3_LatestGrowthFormula ==
    /\ (pc = "L399" /\ ValidCount(income_reports, "totalRevenue") >= 2) =>
            latest_growth = ExpectedGrowth(income_reports, "totalRevenue")
    /\ (pc = "L439" /\ ValidCount(cashflow_reports, "operatingCashflow") >= 2) =>
            latest_ocf_growth = ExpectedGrowth(cashflow_reports, "operatingCashflow")

\* C4: the growth rows and the latest growth are those of every other order of
\* the same reports, and the rows are in ascending order of fiscal year.
PermsOf(seq) ==
    {[i \in 1..Len(seq) |-> seq[f[i]]] : f \in Permutations(1..Len(seq))}
GrowthRows(reports, col) == with_growth_color(dropna_value(GrowthFrame(reports, col)))
AscendingYears(df) ==
    \A i \in 1..(Len(df) - 1) : DigitsValue(df[i].Year) < DigitsValue(df[i + 1].Year)
OrderIndependent(reports, col, rows) ==
    /\ AscendingYears(rows)
    /\ \A q \in PermsOf(reports) : GrowthRows(q, col) = rows
LatestOrderIndependent(reports, col, rows, latest) ==
    /\ AscendingYears(rows)
    /\ \A q \in PermsOf(reports) :
        LET g == GrowthRows(q, col)
        IN  g = rows /\ g # <<>> /\ g[Len(g)].value = latest
C4_OrderIndependent ==
    /\ pc = "L398" =>
            OrderIndependent(income_reports, "totalRevenue", inc_df_renamed)
    /\ pc = "L399" =>
            LatestOrderIndependent(income_reports, "totalRevenue", inc_df_renamed,
                                   latest_growth)
    /\ pc = "L438" =>
            OrderIndependent(cashflow_reports, "operatingCashflow", cf_df_renamed)
    /\ pc = "L439" =>
            LatestOrderIndependent(cashflow_reports, "operatingCashflow", cf_df_renamed,
                                   latest_ocf_growth)
    /\ \A i \in 1..Len(out) : out[i].w = "altair_chart" => AscendingYears(out[i].rows)

\* Three reports arrive middle year first, then the newest, then the oldest,
\* and the latest growth has been taken from two growth rows.
C4_Witness ==
    /\ pc = "L399"
    /\ Len(income_reports) = 3
    /\ YearOf(income_reports[1]) = LatestYear - 1
    /\ YearOf(income_reports[2]) = LatestYear
    /\ Len(inc_df_renamed) = 2
    /\ latest_growth = Num(25, 1)

\* C5: color_coded_growth_text gives every growth value that is not NaN exactly
\* one band: Weak below 10, Moderate from 10 (included) to 20 (excluded), Strong
\* from 20 (included); NaN gives "N/A" and no band.
Below(x, c) == (x.k = "inf" /\ x.n < 0) \/ (x.k = "num" /\ x.n < c * x.d)
AtLeast(x, c) == (x.k = "inf" /\ x.n > 0) \/ (x.k = "num" /\ x.n >= c * x.d)
C5_BandsTotal ==
    call = "color_coded_growth_text" =>
        IF growth_value.k = "nan"
        THEN growth_text.text = "N/A" /\ growth_text.label = ""
        ELSE /\ growth_text.text = "span"
             /\ growth_text.label \in {"Weak", "Moderate", "Strong"}
             /\ growth_text.label = "Weak" <=> Below(growth_value, 10)
             /\ growth_text.label = "Moderate" <=>
                    (AtLeast(growth_value, 10) /\ Below(growth_value, 20))
             /\ growth_text.label = "Strong" <=> AtLeast(growth_value, 20)

\* Exactly 10 has been classified, as Moderate.
C5_Witness ==
    /\ call = "color_coded_growth_text"
    /\ growth_value = Num(10, 1)
    /\ growth_text.label = "Moderate"

\* C6: a DCF valuation or stock price absent from the fetched record is shown
\* as "N/A", never as a number.  (The claim as stated.)
DcfMetricsShown ==
    /\ ValuationPage
    /\ Truthy(dcf_data)
    /\ pc \in {"L236", "L251", "L257", "L278", "L293", "L444", "end"}
AbsentShownAsNA(key, label) ==
    dcf_data[1][key].t \in {"missing", "null"} =>
        RenderedNA(label) /\ ~RenderedNumber(label)
C6_MissingNeverNumber ==
    DcfMetricsShown =>
        /\ AbsentShownAsNA("dcf", "DCF Valuation")
        /\ AbsentShownAsNA("Stock Price", "Stock Price")

\* C7: reading a numeric field never raises: no run ends in the TypeError or
\* ValueError of float(), nor in the KeyError of a metric column that is
\* missing.  (The claim as stated.)
C7_ExtractNeverRaises ==
    exc \notin {"TypeError", "ValueError", "KeyError: 'totalRevenue'",
                "KeyError: 'operatingCashflow'"}

\* C8: a failed fetch (a status other than 200, or 200 with an empty list or an
\* empty object) makes get_dcf and get_ratios return None and the Alpha Vantage
\* fetchers return a dict without annual reports; a run whose fetches all failed
\* raises nothing and ends with an error, warning or info on the screen.
\* (The claim as stated.)
FmpFailed(r) ==
    \/ r.status # 200
    \/ r.body.t = "list" /\ r.body.items = <<>>
    \/ r.body.t = "dict" /\ ~DictTruthy(r.body.items[1])
AvFailed(r) == r.status # 200 \/ r.body = EmptyList \/ r.body = EmptyDict
NoReportsDict(av) == av.t = "dict" /\ GetReports(av) = <<>>
Fetched(i) == IF GrowthPage /\ i = 2 THEN av_cashfl
              ELSE IF i = 1 THEN av_income ELSE IF i = 2 THEN av_balance ELSE av_cashfl
AllFetchesFailed ==
    /\ \A i \in 1..Len(fmp_responses) : FmpFailed(fmp_responses[i])
    /\ \A i \in 1..Len(av_responses) : AvFailed(av_responses[i])
    /\ GrowthPage => ratios_data = None
C8_FailedFetchIsNoData ==
    /\ (Len(fmp_responses) >= 1 /\ FmpFailed(fmp_responses[1])) => dcf_data = None
    /\ (Len(fmp_responses) >= 2 /\ FmpFailed(fmp_responses[2])) => ratios_data = None
    /\ \A i \in 1..Len(av_responses) : AvFailed(av_responses[i]) => NoReportsDict(Fetched(i))
    /\ AllFetchesFailed =>
        /\ pc # "raised"
        /\ (pc = "end" /\ requests # <<>>) =>
             \E i \in 1..Len(out) : out[i].w \in {"error", "warning", "info"}

\* C9: two sector strings that differ only in case or in surrounding whitespace
\* give the same sector.  (The claim as stated.)
lower(s) == [i \in 1..Len(s) |-> IF s[i] = "F" THEN "f" ELSE s[i]]
Normalized(s) == lower(strip(s))
HasSector(r) ==
    r.status = 200 /\ r.body.items # <<>> /\ r.body.items[1]["sector"].t = "str"
C9_SectorCaseInsensitive ==
    (call = "get_company_sector" /\ HasSector(profile_a) /\ HasSector(profile_b)
     /\ Normalized(profile_a.body.items[1]["sector"].s)
            = Normalized(profile_b.body.items[1]["sector"].s))
        => sector_a = sector_b

\* C10: when the run is at a call of color_coded_growth_text, the function is
\* already defined.  (The claim as stated.)
C10_DefinedBeforeCall ==
    pc \in {"L399", "L439"} => "color_coded_growth_text" \in defined

\* The Valuation Dashboard once both FMP fetches are made and line 224 has
\* decided; the run has ended when it is at "end" or has raised.
Decided ==
    /\ ValuationPage
    /\ Len(requests) >= 2
    /\ pc \notin {"L207", "L221", "L222", "L224"}
RunEnded == pc \in {"end", "raised"}
NoDcf == ~Truthy(dcf_data)
NoRatios == ~Truthy(ratios_data)
OutHas(w, label) == \E i \in 1..Len(out) : out[i].w = w /\ out[i].label = label
ErrorShown == OutHas("error", "Could not retrieve any required data")
FmpRequests == <<"fmp:discounted-cash-flow", "fmp:ratios">>
AvRequests == <<"av:INCOME_STATEMENT", "av:BALANCE_SHEET", "av:CASH_FLOW">>
NothingRendered ==
    \A i \in 1..Len(out) : out[i].w \in {"title", "error"}
DcfRendered == OutHas("metric", "DCF Valuation") /\ OutHas("metric", "Stock Price")
RatiosRendered == OutHas("subheader", "Key Financial Ratios")

\* C11: on the Valuation Dashboard the error is shown exactly when both FMP
\* fetches gave no data, and then no Alpha Vantage request is made and nothing
\* else is rendered; the Alpha Vantage requests always come after both FMP
\* requests; and when exactly one of the two is missing, the run ends with the
\* warning for that one shown, the other rendered and the three Alpha Vantage
\* requests made.  (The claim as stated.)
C11_ErrorIffBothMissing ==
    /\ (ValuationPage /\ requests # <<>>) =>
            /\ requests \in {SubSeq(FmpRequests, 1, 1), FmpRequests,
                             FmpRequests \o AvRequests}
            /\ ErrorShown => Decided
    /\ Decided =>
            /\ ErrorShown <=> (NoDcf /\ NoRatios)
            /\ (NoDcf /\ NoRatios) => (requests = FmpRequests /\ NothingRendered)
            /\ (RunEnded /\ NoDcf /\ ~NoRatios) =>
                    /\ OutHas("warning", "DCF data not available.")
                    /\ RatiosRendered
                    /\ requests = FmpRequests \o AvRequests
            /\ (RunEnded /\ ~NoDcf /\ NoRatios) =>
                    /\ OutHas("warning", "Ratios data not available.")
                    /\ DcfRendered
                    /\ requests = FmpRequests \o AvRequests

\* The same, for the runs that float() does not end at lines 231-232: there
\* the warning, the rendering and the three requests are reached.
C11_HoldsUnlessFloatRaises ==
    /\ (ValuationPage /\ requests # <<>>) =>
            /\ requests \in {SubSeq(FmpRequests, 1, 1), FmpRequests,
                             FmpRequests \o AvRequests}
            /\ ErrorShown => Decided
    /\ Decided =>
            /\ ErrorShown <=> (NoDcf /\ NoRatios)
            /\ (NoDcf /\ NoRatios) => (requests = FmpRequests /\ NothingRendered)
            /\ (RunEnded /\ NoDcf /\ ~NoRatios) =>
                    /\ OutHas("warning", "DCF data not available.")
                    /\ RatiosRendered
                    /\ requests = FmpRequests \o AvRequests
            /\ (RunEnded /\ ~NoDcf /\ NoRatios /\ exc \notin {"TypeError", "ValueError"}) =>
                    /\ OutHas("warning", "Ratios data not available.")
                    /\ DcfRendered
                    /\ requests = FmpRequests \o AvRequests

\* C12: the colour the chart gives a growth value that is not NaN is the
\* colour color_coded_growth_text gives it: green with Strong, orange with
\* Moderate, red with Weak.
BandOf(colour) ==
    CASE colour = "green" -> "Strong"
      [] colour = "orange" -> "Moderate"
      [] colour = "red" -> "Weak"
      [] OTHER -> ""
C12_ColourAgreesWithLabel ==
    call = "growth_color" =>
        \A i \in 1..Len(growth_rows) :
            growth_rows[i].value.k # "nan" =>
                /\ growth_rows[i].growth_color \in {"green", "orange", "red"}
                /\ color_coded_growth_text(growth_rows[i].value).color
                        = growth_rows[i].growth_color
                /\ color_coded_growth_text(growth_rows[i].value).label
                        = BandOf(growth_rows[i].growth_color)

\* Exactly 20 has been coloured, green.
C12_Witness ==
    /\ call = "growth_color"
    /\ growth_value = Num(20, 1)
    /\ Len(growth_rows) = 1
    /\ growth_rows[1].growth_color = "green"

====
